---- MODULE Spec2Model ----
(***************************************************************************)
(* Model of the todo data-access layer of todo-convex: the Convex         *)
(* functions createTodo, listTodos, getTodo, updateTodo, deleteTodo and   *)
(* toggleTodoCompleted (convex/todos.ts, reproduced at the end of         *)
(* CONVEX_TANSTACK_GUIDE.md) over the "todos" table.                      *)
(*                                                                         *)
(* A Convex mutation runs as one serializable transaction, and an error   *)
(* thrown by its handler discards every write the handler made, so each   *)
(* handler is one atomic action and a throwing handler leaves the table   *)
(* as it was.                                                             *)
(***************************************************************************)
EXTENDS Integers, Sequences, FiniteSets, TLC

(***************************************************************************)
(* Bounds of the model.                                                   *)
(***************************************************************************)
\* number of document ids the table can ever hand out in Spec
MaxTodos == 2
\* number of clients with a mutation in flight in SpecConc
MaxProcs == 2
\* padding (in characters, on each side) of the padded input strings
MaxPad == 1
\* SpecList seeds tables of 0..MaxSmall documents and of
\* DefaultLimit-1 .. DefaultLimit+MaxOver documents
MaxSmall == 2
MaxOver == 1

(***************************************************************************)
(* Program constants.                                                     *)
(***************************************************************************)
MaxTitleLen == 200
MaxDescriptionLen == 1000
DefaultLimit == 100

(***************************************************************************)
(* JavaScript values.  A value carries its type, so that undefined, null, *)
(* a boolean and a string are all comparable and all different.           *)
(* A string is kept run-length encoded: a sequence of runs <<c, n>>,      *)
(* n >= 1 copies of the character c, adjacent runs of different           *)
(* characters.  The encoding is exact (two strings are equal iff their    *)
(* encodings are), and keeps a 1001-character string small.               *)
(***************************************************************************)
Undefined == [type |-> "undefined"]
Null == [type |-> "null"]
Bool(b) == [type |-> "boolean", val |-> b]
String(runs) == [type |-> "string", runs |-> runs]

Whitespace == {" "}

RECURSIVE RunsLength(_)
RunsLength(runs) ==
    IF runs = <<>> THEN 0 ELSE Head(runs)[2] + RunsLength(Tail(runs))

\* s.length
Length(s) == RunsLength(s.runs)

RECURSIVE TrimStart(_)
TrimStart(runs) ==
    IF runs = <<>> THEN <<>>
    ELSE IF Head(runs)[1] \in Whitespace THEN TrimStart(Tail(runs))
    ELSE runs

RECURSIVE TrimEnd(_)
TrimEnd(runs) ==
    IF runs = <<>> THEN <<>>
    ELSE IF runs[Len(runs)][1] \in Whitespace
         THEN TrimEnd(SubSeq(runs, 1, Len(runs) - 1))
    ELSE runs

\* s.trim(): the string without its leading and trailing whitespace
Trim(s) == String(TrimEnd(TrimStart(s.runs)))

\* s?.trim()
OptTrim(v) == IF v = Undefined THEN Undefined ELSE Trim(v)

\* JavaScript truthiness of undefined, null, booleans and strings
Truthy(v) ==
    CASE v.type = "undefined" -> FALSE
      [] v.type = "null" -> FALSE
      [] v.type = "boolean" -> v.val
      [] v.type = "string" -> Length(v) > 0

\* o.k : reading a property the object does not have gives undefined
Prop(o, k) == IF k \in DOMAIN o THEN o[k] ELSE Undefined

\* the object literal {k1: v1, ...} as Convex stores or returns it: a
\* property whose value is undefined is not part of the value
Strip(o) == [k \in {j \in DOMAIN o : o[j] # Undefined} |-> o[k]]

Num(n) == [type |-> "number", val |-> n]
\* a document id of the "todos" table; ids are opaque
Id(i) == [type |-> "id", val |-> i]

(***************************************************************************)
(* The "todos" table behind ctx.db.  A table is a function from the ids   *)
(* of its documents to the documents; a document is an object with the    *)
(* system fields _id and _creationTime and the fields it was given.       *)
(***************************************************************************)
\* ctx.db.get(id): the document, or null
DbGet(table, id) == IF id \in DOMAIN table THEN table[id] ELSE Null

\* ctx.db.insert("todos", fields): the table with a new document under the
\* fresh id, created at time now
DbInsert(table, id, now, fields) ==
    (id :> (Strip(fields) @@ [_id |-> id, _creationTime |-> Num(now)])) @@ table

\* DbPatch stamping the document with a new _creationTime
DbPatchStamps(table, id, patch) ==
    LET doc == table[id]
        removed == {k \in DOMAIN patch : patch[k] = Undefined}
        merged == [k \in (DOMAIN doc \cup DOMAIN patch) \ removed |->
                      IF k = "_creationTime" THEN Num(0)
                      ELSE IF k \in DOMAIN patch THEN patch[k] ELSE doc[k]]
    IN  [table EXCEPT ![id] = merged]

\* ctx.db.patch(id, patch): a shallow merge; new fields are added, existing
\* fields overwritten, fields set to undefined removed
DbPatch(table, id, patch) ==
    LET doc == table[id]
        removed == {k \in DOMAIN patch : patch[k] = Undefined}
        merged == [k \in (DOMAIN doc \cup DOMAIN patch) \ removed |->
                      IF k \in DOMAIN patch THEN patch[k] ELSE doc[k]]
    IN  [table EXCEPT ![id] = merged]

\* DbDelete emptying the table
DbDeleteAll(table, id) == <<>>

\* ctx.db.delete(id)
DbDelete(table, id) == [i \in DOMAIN table \ {id} |-> table[i]]

\* OrderDesc with the comparison turned round: ascending _creationTime
OrderAsc(docs) ==
    LET older == [d \in docs |->
                     Cardinality({e \in docs :
                                     e._creationTime.val < d._creationTime.val})]
    IN  [k \in 1..Cardinality(docs) |-> CHOOSE d \in docs : older[d] = k - 1]

\* .order("desc"): the documents by descending _creationTime
OrderDesc(docs) ==
    LET newer == [d \in docs |->
                     Cardinality({e \in docs :
                                     e._creationTime.val > d._creationTime.val})]
    IN  [k \in 1..Cardinality(docs) |-> CHOOSE d \in docs : newer[d] = k - 1]

\* .take(n): the first n results, or all of them when there are fewer
Take(seq, n) == SubSeq(seq, 1, IF n < Len(seq) THEN n ELSE Len(seq))

\* the object the mutations return: the five fields of the document read
TodoObject(doc) ==
    Strip([title |-> Prop(doc, "title"),
           description |-> Prop(doc, "description"),
           completed |-> Prop(doc, "completed")])
    @@ [_id |-> doc._id, _creationTime |-> doc._creationTime]

(***************************************************************************)
(* Outcome of a handler: the value it returns and the table it leaves, or *)
(* the message of the Error it throws and the table as it was before the  *)
(* call.                                                                  *)
(***************************************************************************)
NoError == "none"
Return(value, table) == [error |-> NoError, value |-> value, table |-> table]
Throw(message, table) == [error |-> message, value |-> Undefined, table |-> table]

(***************************************************************************)
(* createTodo                                                             *)
(***************************************************************************)
\* createTodoError with ">=" for ">" in the check of the title's length
createTodoErrorAtLimit(args) ==
    IF ~Truthy(args.title) \/ Length(Trim(args.title)) = 0
      THEN "Title is required"
    ELSE IF Length(args.title) >= MaxTitleLen
      THEN "Title must be less than 200 characters"
    ELSE IF Truthy(Prop(args, "description"))
            /\ Length(args.description) > MaxDescriptionLen
      THEN "Description must be less than 1000 characters"
    ELSE NoError

\* the validation of createTodo: the message thrown, or NoError
createTodoError(args) ==
    IF ~Truthy(args.title) \/ Length(Trim(args.title)) = 0
      THEN "Title is required"
    ELSE IF Length(args.title) > MaxTitleLen
      THEN "Title must be less than 200 characters"
    ELSE IF Truthy(Prop(args, "description"))
            /\ Length(args.description) > MaxDescriptionLen
      THEN "Description must be less than 1000 characters"
    ELSE NoError

\* createTodoFields storing no description for an empty one
createTodoFieldsDropsEmpty(args) ==
    [title |-> Trim(args.title),
     description |-> IF Truthy(Prop(args, "description"))
                       /\ Length(Trim(args.description)) > 0
                       THEN Trim(args.description) ELSE Undefined,
     completed |-> args.completed]

\* createTodoFields with completed: false for args.completed
createTodoFieldsPending(args) ==
    [title |-> Trim(args.title),
     description |-> OptTrim(Prop(args, "description")),
     completed |-> Bool(FALSE)]

\* createTodoFields storing the title as typed
createTodoFieldsUntrimmed(args) ==
    [title |-> args.title,
     description |-> OptTrim(Prop(args, "description")),
     completed |-> args.completed]

\* the fields createTodo inserts
createTodoFields(args) ==
    [title |-> Trim(args.title),
     description |-> OptTrim(Prop(args, "description")),
     completed |-> args.completed]

createTodo(table, id, now, args) ==
    IF createTodoError(args) # NoError
      THEN Throw(createTodoError(args), table)
    ELSE LET inserted == DbInsert(table, id, now, createTodoFields(args))
             createdTodo == DbGet(inserted, id)
         IN  IF createdTodo = Null
               THEN Throw("Failed to create todo", table)
             ELSE Return(TodoObject(createdTodo), inserted)

(***************************************************************************)
(* listTodos and getTodo                                                  *)
(***************************************************************************)
\* listTodos without the branch that reads the index by_completed
listTodosUnfiltered(table, args) ==
    LET limit == IF Prop(args, "limit") = Undefined
                   THEN DefaultLimit ELSE args.limit.val
        all == {table[i] : i \in DOMAIN table}
    IN  Take(OrderDesc(all), limit)

listTodos(table, args) ==
    LET limit == IF Prop(args, "limit") = Undefined
                   THEN DefaultLimit ELSE args.limit.val
        all == {table[i] : i \in DOMAIN table}
    IN  IF Prop(args, "completed") # Undefined
          THEN Take(OrderDesc({d \in all : d.completed = args.completed}), limit)
        ELSE Take(OrderDesc(all), limit)

\* getTodo without the "?? null": nothing for a missing document
getTodoUndefined(table, args) ==
    IF args.todoId \in DOMAIN table THEN table[args.todoId] ELSE Undefined

getTodo(table, args) == DbGet(table, args.todoId)

(***************************************************************************)
(* updateTodo                                                             *)
(***************************************************************************)
\* updateTodoData without the check of the description's length
updateTodoDataAnyDescription(args) ==
    LET title == Prop(args, "title")
        description == Prop(args, "description")
        completed == Prop(args, "completed")
        withTitle == IF title # Undefined
                       THEN [title |-> Trim(title)] ELSE <<>>
        withDescription ==
            IF description # Undefined
              THEN [description |-> OptTrim(description)] @@ withTitle
            ELSE withTitle
        withCompleted ==
            IF completed # Undefined
              THEN [completed |-> completed] @@ withDescription
            ELSE withDescription
    IN  IF title # Undefined /\ Length(Trim(title)) = 0
          THEN [error |-> "Title cannot be empty", data |-> <<>>]
        ELSE IF title # Undefined /\ Length(title) > MaxTitleLen
          THEN [error |-> "Title must be less than 200 characters", data |-> <<>>]
        ELSE [error |-> NoError, data |-> withCompleted]

\* updateTodoData without the check of the title's length
updateTodoDataAnyLength(args) ==
    LET title == Prop(args, "title")
        description == Prop(args, "description")
        completed == Prop(args, "completed")
        withTitle == IF title # Undefined
                       THEN [title |-> Trim(title)] ELSE <<>>
        withDescription ==
            IF description # Undefined
              THEN [description |-> OptTrim(description)] @@ withTitle
            ELSE withTitle
        withCompleted ==
            IF completed # Undefined
              THEN [completed |-> completed] @@ withDescription
            ELSE withDescription
    IN  IF title # Undefined /\ Length(Trim(title)) = 0
          THEN [error |-> "Title cannot be empty", data |-> <<>>]
        ELSE IF description # Undefined /\ Truthy(description)
                /\ Length(description) > MaxDescriptionLen
          THEN [error |-> "Description must be less than 1000 characters",
                data |-> <<>>]
        ELSE [error |-> NoError, data |-> withCompleted]

\* the updateData object updateTodo builds from its arguments, or the
\* message of the Error thrown while building it
updateTodoData(args) ==
    LET title == Prop(args, "title")
        description == Prop(args, "description")
        completed == Prop(args, "completed")
        withTitle == IF title # Undefined
                       THEN [title |-> Trim(title)] ELSE <<>>
        withDescription ==
            IF description # Undefined
              THEN [description |-> OptTrim(description)] @@ withTitle
            ELSE withTitle
        withCompleted ==
            IF completed # Undefined
              THEN [completed |-> completed] @@ withDescription
            ELSE withDescription
    IN  IF title # Undefined /\ Length(Trim(title)) = 0
          THEN [error |-> "Title cannot be empty", data |-> <<>>]
        ELSE IF title # Undefined /\ Length(title) > MaxTitleLen
          THEN [error |-> "Title must be less than 200 characters", data |-> <<>>]
        ELSE IF description # Undefined /\ Truthy(description)
                /\ Length(description) > MaxDescriptionLen
          THEN [error |-> "Description must be less than 1000 characters",
                data |-> <<>>]
        ELSE [error |-> NoError, data |-> withCompleted]

\* updateTodo building updateData before it looks the document up
updateTodoValidatesFirst(table, args) ==
    LET existingTodo == DbGet(table, args.todoId)
        built == updateTodoData(args)
    IN  IF built.error # NoError THEN Throw(built.error, table)
        ELSE IF existingTodo = Null THEN Throw("Todo not found", table)
        ELSE LET patched == DbPatch(table, args.todoId, built.data)
                 updatedTodo == DbGet(patched, args.todoId)
             IN  IF updatedTodo = Null
                   THEN Throw("Failed to update todo", table)
                 ELSE Return(TodoObject(updatedTodo), patched)

\* updateTodo with a patch that replaces the document's own fields
updateTodoReplaces(table, args) ==
    LET existingTodo == DbGet(table, args.todoId)
        built == updateTodoData(args)
    IN  IF existingTodo = Null THEN Throw("Todo not found", table)
        ELSE IF built.error # NoError THEN Throw(built.error, table)
        ELSE LET replaced ==
                     [table EXCEPT ![args.todoId] =
                         built.data @@ [_id |-> existingTodo._id,
                                        _creationTime |-> existingTodo._creationTime,
                                        title |-> existingTodo.title,
                                        completed |-> Bool(FALSE)]]
                 updatedTodo == DbGet(replaced, args.todoId)
             IN  Return(TodoObject(updatedTodo), replaced)

updateTodo(table, args) ==
    LET existingTodo == DbGet(table, args.todoId)
        built == updateTodoData(args)
    IN  IF existingTodo = Null THEN Throw("Todo not found", table)
        ELSE IF built.error # NoError THEN Throw(built.error, table)
        ELSE LET patched == DbPatch(table, args.todoId, built.data)
                 updatedTodo == DbGet(patched, args.todoId)
             IN  IF updatedTodo = Null
                   THEN Throw("Failed to update todo", table)
                 ELSE Return(TodoObject(updatedTodo), patched)

(***************************************************************************)
(* deleteTodo and toggleTodoCompleted                                     *)
(***************************************************************************)
\* deleteTodo without the call of ctx.db.delete
deleteTodoKeeps(table, args) ==
    LET existingTodo == DbGet(table, args.todoId)
    IN  IF existingTodo = Null THEN Throw("Todo not found", table)
        ELSE Return(Null, table)

deleteTodo(table, args) ==
    LET existingTodo == DbGet(table, args.todoId)
    IN  IF existingTodo = Null THEN Throw("Todo not found", table)
        ELSE Return(Null, DbDelete(table, args.todoId))

\* toggleTodoCompleted without the check that the document exists
toggleTodoCompletedUnchecked(table, args) ==
    LET existingTodo == DbGet(table, args.todoId)
        newCompletedState == Bool(~Truthy(Prop(existingTodo, "completed")))
        patched == IF existingTodo = Null THEN table
                   ELSE DbPatch(table, args.todoId,
                                [completed |-> newCompletedState])
        updatedTodo == DbGet(patched, args.todoId)
    IN  IF updatedTodo = Null
          THEN Throw("Failed to update todo", table)
        ELSE Return(TodoObject(updatedTodo), patched)

\* toggleTodoCompleted marking the document completed instead of negating
toggleTodoCompletedSets(table, args) ==
    LET existingTodo == DbGet(table, args.todoId)
    IN  IF existingTodo = Null THEN Throw("Todo not found", table)
        ELSE LET patched == DbPatch(table, args.todoId,
                                    [completed |-> Bool(TRUE)])
                 updatedTodo == DbGet(patched, args.todoId)
             IN  IF updatedTodo = Null
                   THEN Throw("Failed to update todo", table)
                 ELSE Return(TodoObject(updatedTodo), patched)

toggleTodoCompleted(table, args) ==
    LET existingTodo == DbGet(table, args.todoId)
    IN  IF existingTodo = Null THEN Throw("Todo not found", table)
        ELSE LET newCompletedState == Bool(~Truthy(existingTodo.completed))
                 patched == DbPatch(table, args.todoId,
                                    [completed |-> newCompletedState])
                 updatedTodo == DbGet(patched, args.todoId)
             IN  IF updatedTodo = Null
                   THEN Throw("Failed to update todo", table)
                 ELSE Return(TodoObject(updatedTodo), patched)

(***************************************************************************)
(* Arguments the functions are called with.                               *)
(***************************************************************************)
\* the string of n copies of the character c
Str(c, n) == String(IF n = 0 THEN <<>> ELSE << <<c, n>> >>)

\* Str(c, n) with MaxPad blanks before it and MaxPad blanks after it
Padded(c, n) ==
    String(IF n = 0 THEN << <<" ", 2 * MaxPad>> >>
           ELSE << <<" ", MaxPad>>, <<c, n>>, <<" ", MaxPad>> >>)

\* Titles: empty, blank, short and padded, exactly MaxTitleLen characters of
\* which 2 * MaxPad are padding, and MaxTitleLen + 1 characters without and
\* with padding.
TitleInputs ==
    {Str("a", 0), Padded("a", 0), Padded("a", 1),
     Padded("a", MaxTitleLen - 2 * MaxPad),
     Str("a", MaxTitleLen + 1),
     Padded("a", MaxTitleLen + 1 - 2 * MaxPad)}

\* Descriptions: exactly MaxDescriptionLen characters of which 2 * MaxPad
\* are padding, and MaxDescriptionLen + 1 characters without and with padding.
DescriptionInputs ==
    {Padded("d", MaxDescriptionLen - 2 * MaxPad),
     Str("d", MaxDescriptionLen + 1),
     Padded("d", MaxDescriptionLen + 1 - 2 * MaxPad)}

Ids == {Id(i) : i \in 1..MaxTodos}

\* marks, while an argument object is put together, a key that is left out
Omitted == [type |-> "omitted"]

\* the object with the given keys and values, without the keys left out
Object(o) == [k \in {j \in DOMAIN o : o[j] # Omitted} |-> o[k]]

CreateArgs ==
    {Object([title |-> t, description |-> d, completed |-> Bool(c)]) :
        t \in TitleInputs, d \in DescriptionInputs \cup {Omitted},
        c \in BOOLEAN}

\* an optional key is left out, or carries a value; description may also
\* be present with the value undefined
UpdateArgs ==
    {Object([todoId |-> i, title |-> t, description |-> d, completed |-> c]) :
        i \in Ids, t \in TitleInputs \cup {Omitted},
        d \in DescriptionInputs \cup {Omitted, Undefined},
        c \in {Bool(TRUE), Bool(FALSE), Omitted}}

IdArgs == {[todoId |-> i] : i \in Ids}

\* small limits, and the default limit and one more
LimitInputs == (1..MaxTodos) \cup {DefaultLimit, DefaultLimit + 1}

ListArgs ==
    {Object([completed |-> c, limit |-> l]) :
        c \in {Bool(TRUE), Bool(FALSE), Omitted},
        l \in {Num(n) : n \in LimitInputs} \cup {Omitted}}

(***************************************************************************)
(* State.                                                                 *)
(***************************************************************************)
VARIABLES
    todos,     \* the "todos" table
    used,      \* the ids the table has handed out so far
    clock,     \* the _creationTime of the newest document inserted so far
    call,      \* the call being answered: the function and its arguments
    result,    \* what that call returned or threw
    deleted,   \* history: the ids a deleteTodo has succeeded on
    txs,       \* SpecConc: the mutation each client has in flight
    origin,    \* SpecConc, history: the table before the first mutation
    page       \* SpecPage: what the todos page last did

vars == <<todos, used, clock, call, result, deleted, txs, origin, page>>

\* the variables of SpecConc and SpecPage, which rest in the other
\* specifications
aside == <<txs, origin, page>>
NoTxs == <<>>
NoPage == [event |-> "none", invalidated |-> FALSE]
Resting == txs = NoTxs /\ origin = <<>> /\ page = NoPage

\* no call is being answered
NoCall == [op |-> "none", args |-> <<>>]
NoResult == [error |-> NoError, value |-> Undefined]
Idle == call = NoCall

Init ==
    /\ todos = <<>>
    /\ used = {}
    /\ clock = 0
    /\ call = NoCall
    /\ result = NoResult
    /\ deleted = {}
    /\ Resting

\* the id ctx.db.insert gives the new document: one no document has had
\* before.  Ids are opaque and no handler compares them, so one fresh id
\* stands for all; the largest is taken, which keeps the order of the ids
\* different from the order of creation.
NewId(handedOut) ==
    CHOOSE i \in Ids \ handedOut : \A j \in Ids \ handedOut : j.val <= i.val

Outcome(out) == [error |-> out.error, value |-> out.value]

CreateTodo ==
    \E args \in CreateArgs :
        LET id == NewId(used)
            out == createTodo(todos, id, clock + 1, args)
        IN  /\ Idle
            /\ used # Ids
            /\ todos' = out.table
            /\ used' = IF out.error = NoError THEN used \cup {id} ELSE used
            /\ clock' = IF out.error = NoError THEN clock + 1 ELSE clock
            /\ call' = [op |-> "createTodo", args |-> args]
            /\ result' = Outcome(out)
            /\ UNCHANGED <<deleted, aside>>

ListTodos ==
    \E args \in ListArgs :
        /\ Idle
        /\ call' = [op |-> "listTodos", args |-> args]
        /\ result' = [error |-> NoError, value |-> listTodos(todos, args)]
        /\ UNCHANGED <<todos, used, clock, deleted, aside>>

GetTodo ==
    \E args \in IdArgs :
        /\ Idle
        /\ call' = [op |-> "getTodo", args |-> args]
        /\ result' = [error |-> NoError, value |-> getTodo(todos, args)]
        /\ UNCHANGED <<todos, used, clock, deleted, aside>>

UpdateTodo ==
    \E args \in UpdateArgs :
        LET out == updateTodo(todos, args)
        IN  /\ Idle
            /\ todos' = out.table
            /\ call' = [op |-> "updateTodo", args |-> args]
            /\ result' = Outcome(out)
            /\ UNCHANGED <<used, clock, deleted, aside>>

DeleteTodo ==
    \E args \in IdArgs :
        LET out == deleteTodo(todos, args)
        IN  /\ Idle
            /\ todos' = out.table
            /\ call' = [op |-> "deleteTodo", args |-> args]
            /\ result' = Outcome(out)
            /\ deleted' = IF out.error = NoError
                            THEN deleted \cup {args.todoId} ELSE deleted
            /\ UNCHANGED <<used, clock, aside>>

ToggleTodoCompleted ==
    \E args \in IdArgs :
        LET out == toggleTodoCompleted(todos, args)
        IN  /\ Idle
            /\ todos' = out.table
            /\ call' = [op |-> "toggleTodoCompleted", args |-> args]
            /\ result' = Outcome(out)
            /\ UNCHANGED <<used, clock, deleted, aside>>

\* the caller has its answer; the next call can be made
Settle ==
    /\ ~Idle
    /\ call' = NoCall
    /\ result' = NoResult
    /\ UNCHANGED <<todos, used, clock, deleted, aside>>

Next ==
    \/ CreateTodo
    \/ ListTodos
    \/ GetTodo
    \/ UpdateTodo
    \/ DeleteTodo
    \/ ToggleTodoCompleted
    \/ Settle

Spec == Init /\ [][Next]_vars

(***************************************************************************)
(* SpecList: listTodos on tables of up to DefaultLimit + MaxOver          *)
(* documents.  A seed table holds the documents n calls of createTodo     *)
(* insert; done is the set of the calls, counted from the first, that     *)
(* passed completed: true.  The k-th call has the id n + 1 - k.           *)
(***************************************************************************)
SeedTable(n, done) ==
    [id \in {Id(i) : i \in 1..n} |->
        LET k == n + 1 - id.val
        IN  createTodo(<<>>, id, k,
                       [title |-> Padded("a", 1), completed |-> Bool(k \in done)]
                      ).table[id]]

SeedSizes == (0..MaxSmall) \cup ((DefaultLimit - 1)..(DefaultLimit + MaxOver))

\* none, all, the oldest, the newest, every second document completed
SeedPatterns(n) ==
    {{}, 1..n, {1} \cap (1..n), {n} \cap (1..n), {k \in 1..n : k % 2 = 0}}

SeedTables ==
    UNION {{SeedTable(n, done) : done \in SeedPatterns(n)} : n \in SeedSizes}

InitList ==
    /\ todos \in SeedTables
    /\ used = DOMAIN todos
    /\ clock = Cardinality(DOMAIN todos)
    /\ call = NoCall
    /\ result = NoResult
    /\ deleted = {}
    /\ Resting

NextList ==
    \/ ListTodos
    \/ Settle

SpecList == InitList /\ [][NextList]_vars

(***************************************************************************)
(* SpecCreate: createTodo alone, with the empty, the blank and the short  *)
(* padded description among its arguments.                                *)
(***************************************************************************)
WideDescriptionInputs ==
    DescriptionInputs \cup {Str("d", 0), Padded("d", 0), Padded("d", 1)}

WideCreateArgs ==
    {Object([title |-> t, description |-> d, completed |-> Bool(c)]) :
        t \in TitleInputs, d \in WideDescriptionInputs \cup {Omitted},
        c \in BOOLEAN}

CreateTodoWide ==
    \E args \in WideCreateArgs :
        LET id == NewId(used)
            out == createTodo(todos, id, clock + 1, args)
        IN  /\ Idle
            /\ used # Ids
            /\ todos' = out.table
            /\ used' = IF out.error = NoError THEN used \cup {id} ELSE used
            /\ clock' = IF out.error = NoError THEN clock + 1 ELSE clock
            /\ call' = [op |-> "createTodo", args |-> args]
            /\ result' = Outcome(out)
            /\ UNCHANGED <<deleted, aside>>

NextCreate ==
    \/ CreateTodoWide
    \/ Settle

SpecCreate == Init /\ [][NextCreate]_vars

(***************************************************************************)
(* SpecConc: mutations of several clients in flight at once.  Convex runs *)
(* a mutation as a serializable transaction with optimistic concurrency   *)
(* control: the handler reads a snapshot of the table and its own writes; *)
(* when it ends, its writes are committed if no document it read has      *)
(* changed since the snapshot, and otherwise the handler is run again on  *)
(* a new snapshot.  What the handler does between snapshot and commit is  *)
(* seen by no one, so a mutation is a Begin and a Commit, with Retry      *)
(* steps between them.                                                    *)
(***************************************************************************)
Procs == 1..MaxProcs

\* one update that is accepted and one that is rejected, for each id
ConcUpdateArgs ==
    {[todoId |-> i, title |-> Padded("a", MaxTitleLen - 2 * MaxPad),
      completed |-> Bool(TRUE)] : i \in Ids}
    \cup {[todoId |-> i, title |-> Str("a", 0)] : i \in Ids}

ConcCalls ==
    {[op |-> "toggleTodoCompleted", args |-> a] : a \in IdArgs}
    \cup {[op |-> "deleteTodo", args |-> a] : a \in IdArgs}
    \cup {[op |-> "updateTodo", args |-> a] : a \in ConcUpdateArgs}

\* the handler of the call, run on the table
Run(c, table) ==
    CASE c.op = "toggleTodoCompleted" -> toggleTodoCompleted(table, c.args)
      [] c.op = "deleteTodo" -> deleteTodo(table, c.args)
      [] c.op = "updateTodo" -> updateTodo(table, c.args)

IdleTx == [status |-> "idle"]

\* a document the transaction read is no longer as in its snapshot; the
\* three handlers read the document of args.todoId only
ConflictNever(tx) == FALSE

Conflict(tx) ==
    DbGet(todos, tx.call.args.todoId) # DbGet(tx.snapshot, tx.call.args.todoId)

\* the current table with the writes the handler made to its snapshot
Committed(snapshot, written) ==
    LET changed == {id \in DOMAIN snapshot \cup DOMAIN written :
                       DbGet(snapshot, id) # DbGet(written, id)}
    IN  [id \in ((DOMAIN todos \ changed) \cup (changed \cap DOMAIN written)) |->
            IF id \in changed THEN written[id] ELSE todos[id]]

\* all documents present, every seed pattern of completed flags
ConcSeeds == {SeedTable(MaxTodos, done) : done \in SeedPatterns(MaxTodos)}

InitConc ==
    /\ todos \in ConcSeeds
    /\ origin = todos
    /\ used = DOMAIN todos
    /\ clock = Cardinality(DOMAIN todos)
    /\ call = NoCall
    /\ result = NoResult
    /\ deleted = {}
    /\ txs = [p \in Procs |-> IdleTx]
    /\ page = NoPage

Begin(p) ==
    \E c \in ConcCalls :
        /\ txs[p] = IdleTx
        /\ txs' = [txs EXCEPT ![p] = [status |-> "running", call |-> c,
                                      snapshot |-> todos, retried |-> FALSE]]
        /\ UNCHANGED <<todos, used, clock, call, result, deleted, origin, page>>

Retry(p) ==
    /\ txs[p].status = "running"
    /\ Conflict(txs[p])
    /\ txs' = [txs EXCEPT ![p].snapshot = todos, ![p].retried = TRUE]
    /\ UNCHANGED <<todos, used, clock, call, result, deleted, origin, page>>

Commit(p) ==
    /\ txs[p].status = "running"
    /\ ~Conflict(txs[p])
    /\ LET tx == txs[p]
           out == Run(tx.call, tx.snapshot)
           id == tx.call.args.todoId
       IN  /\ todos' = Committed(tx.snapshot, out.table)
           /\ txs' = [txs EXCEPT ![p] =
                         [status |-> "done", call |-> tx.call,
                          error |-> out.error, value |-> out.value,
                          before |-> DbGet(todos, id),
                          wrote |-> DbGet(todos', id),
                          overlapped |-> tx.snapshot # todos,
                          retried |-> tx.retried]]
           /\ deleted' = IF tx.call.op = "deleteTodo" /\ out.error = NoError
                           THEN deleted \cup {id} ELSE deleted
    /\ UNCHANGED <<used, clock, call, result, origin, page>>

NextConc ==
    \/ \E p \in Procs : Begin(p)
    \/ \E p \in Procs : Retry(p)
    \/ \E p \in Procs : Commit(p)

SpecConc == InitConc /\ [][NextConc]_vars

(***************************************************************************)
(* SpecPage: the todos page, routes/todos/index.tsx.  The page calls      *)
(* createTodo from the submit handler of its form, toggleTodoCompleted    *)
(* from the switch of a listed todo and deleteTodo from its X button.     *)
(***************************************************************************)
\* todoSchema.parse(value): the title is trimmed and then measured, the
\* description is measured as it is
todoSchema(value) ==
    LET title == Trim(value.title)
        description == Prop(value, "description")
        error == IF Length(title) < 1 THEN "Title is required"
                 ELSE IF Length(title) > MaxTitleLen
                   THEN "Title must be less than 200 characters"
                 ELSE IF description # Undefined
                         /\ Length(description) > MaxDescriptionLen
                   THEN "Description must be less than 1000 characters"
                 ELSE NoError
    IN  [error |-> error,
         data |-> [title |-> title, description |-> description,
                   completed |-> value.completed]]

\* the arguments of onSubmit, with the title as typed
onSubmitArgsAsTyped(value, validatedData) ==
    Strip([title |-> value.title,
           description |-> validatedData.description,
           completed |-> validatedData.completed])

\* the arguments onSubmit calls createTodo with
onSubmitArgs(value, validatedData) ==
    Strip([title |-> validatedData.title,
           description |-> validatedData.description,
           completed |-> validatedData.completed])

\* Titles typed into the form: empty, MaxTitleLen - 1, MaxTitleLen and
\* MaxTitleLen + 1 letters between blanks, and MaxTitleLen + 1 letters
FormTitleInputs ==
    {Str("a", 0),
     Padded("a", MaxTitleLen - 1),
     Padded("a", MaxTitleLen),
     Padded("a", MaxTitleLen + 1),
     Str("a", MaxTitleLen + 1)}

\* Descriptions typed into the form; the field holds '' when left alone
FormDescriptionInputs ==
    {Str("d", 0),
     Padded("d", MaxDescriptionLen - 2 * MaxPad),
     Str("d", MaxDescriptionLen + 1)}

FormValues ==
    {[title |-> t, description |-> d, completed |-> Bool(c)] :
        t \in FormTitleInputs, d \in FormDescriptionInputs, c \in BOOLEAN}

Rendered == Idle /\ page = NoPage

\* form.onSubmit({value})
onSubmit ==
    \E value \in FormValues :
        LET parsed == todoSchema(value)
            args == onSubmitArgs(value, parsed.data)
            id == NewId(used)
            out == createTodo(todos, id, clock + 1, args)
        IN  /\ Rendered
            /\ used # Ids
            /\ IF parsed.error # NoError
                 THEN /\ page' = [event |-> "submit", value |-> value,
                                  accepted |-> FALSE, invalidated |-> FALSE]
                      /\ UNCHANGED <<todos, used, clock, call, result>>
               ELSE /\ todos' = out.table
                    /\ used' = IF out.error = NoError
                                 THEN used \cup {id} ELSE used
                    /\ clock' = IF out.error = NoError
                                  THEN clock + 1 ELSE clock
                    /\ call' = [op |-> "createTodo", args |-> args]
                    /\ result' = Outcome(out)
                    /\ page' = [event |-> "submit", value |-> value,
                                accepted |-> TRUE,
                                invalidated |-> out.error = NoError]
            /\ UNCHANGED <<deleted, txs, origin>>

\* Switch.onCheckedChange of a todo that is or was listed
onCheckedChange ==
    \E id \in used :
        LET args == [todoId |-> id]
            out == toggleTodoCompleted(todos, args)
        IN  /\ Rendered
            /\ todos' = out.table
            /\ call' = [op |-> "toggleTodoCompleted", args |-> args]
            /\ result' = Outcome(out)
            /\ page' = [event |-> "toggle", value |-> args,
                        accepted |-> TRUE, invalidated |-> FALSE]
            /\ UNCHANGED <<used, clock, deleted, txs, origin>>

\* Button.onClick of a todo that is or was listed
onClick ==
    \E id \in used :
        LET args == [todoId |-> id]
            out == deleteTodo(todos, args)
        IN  /\ Rendered
            /\ todos' = out.table
            /\ call' = [op |-> "deleteTodo", args |-> args]
            /\ result' = Outcome(out)
            /\ deleted' = IF out.error = NoError
                            THEN deleted \cup {id} ELSE deleted
            /\ page' = [event |-> "delete", value |-> args,
                        accepted |-> TRUE, invalidated |-> FALSE]
            /\ UNCHANGED <<used, clock, txs, origin>>

\* the handler has ended and the page waits for the next event
Render ==
    /\ page # NoPage
    /\ page' = NoPage
    /\ call' = NoCall
    /\ result' = NoResult
    /\ UNCHANGED <<todos, used, clock, deleted, txs, origin>>

NextPage == onSubmit \/ onCheckedChange \/ onClick \/ Render

SpecPage == Init /\ [][NextPage]_vars

(***************************************************************************)
(* The failures of the interface, by the message of the Error thrown.     *)
(***************************************************************************)
InvalidInput ==
    {"Title is required", "Title cannot be empty",
     "Title must be less than 200 characters",
     "Description must be less than 1000 characters"}
NotFound == {"Todo not found"}
PersistenceError == {"Failed to create todo", "Failed to update todo"}

\* the step answers a call of the function op
Calls(op) == Idle /\ call'.op = op

(***************************************************************************)
(* C1.  As claimed: createTodo succeeds, and returns the trimmed title    *)
(* and description, whenever the title has 1..200 characters after        *)
(* trimming and the description is absent or has at most 1000 characters  *)
(* after trimming, also when the untrimmed input is longer.               *)
(***************************************************************************)
ReturnsTrimmed ==
    /\ result.error = NoError
    /\ result.value.title = Trim(call.args.title)
    /\ Prop(result.value, "description")
         = OptTrim(Prop(call.args, "description"))

C1_AsClaimed ==
    (/\ call.op = "createTodo"
     /\ Length(Trim(call.args.title)) \in 1..MaxTitleLen
     /\ \/ "description" \notin DOMAIN call.args
        \/ Length(Trim(call.args.description)) <= MaxDescriptionLen)
    => ReturnsTrimmed

\* C1, amended: createTodo succeeds, and returns the trimmed title and
\* description, whenever the title is not empty after trimming and has at
\* most 200 characters before trimming, and the description is absent or has
\* at most 1000 characters before trimming.
C1_CreateReturnsTrimmed ==
    (/\ call.op = "createTodo"
     /\ Length(Trim(call.args.title)) >= 1
     /\ Length(call.args.title) <= MaxTitleLen
     /\ \/ "description" \notin DOMAIN call.args
        \/ Length(call.args.description) <= MaxDescriptionLen)
    => ReturnsTrimmed

\* a padded title of exactly 200 characters and a padded description of
\* exactly 1000 characters have been accepted
C1_Witness ==
    /\ call.op = "createTodo"
    /\ result.error = NoError
    /\ Length(call.args.title) = MaxTitleLen
    /\ Trim(call.args.title) # call.args.title
    /\ "description" \in DOMAIN call.args
    /\ Length(call.args.description) = MaxDescriptionLen
    /\ Trim(call.args.description) # call.args.description

(***************************************************************************)
(* C2.  As claimed: createTodo fails with InvalidInput exactly when the   *)
(* title is empty after trimming or longer than 200 characters before     *)
(* trimming, and a failing createTodo leaves the table as it was.         *)
(***************************************************************************)
TitleRejected(title) ==
    Length(Trim(title)) = 0 \/ Length(title) > MaxTitleLen

DescriptionRejected(args) ==
    /\ "description" \in DOMAIN args
    /\ args.description # Undefined
    /\ Length(args.description) > MaxDescriptionLen

C2_AsClaimed ==
    [][Calls("createTodo") =>
         /\ result'.error \in InvalidInput <=> TitleRejected(call'.args.title)
         /\ result'.error # NoError => todos' = todos]_vars

\* C2, amended: createTodo fails with InvalidInput exactly when the title is
\* empty after trimming, or is longer than 200 characters before trimming, or
\* the description is present and longer than 1000 characters before
\* trimming; a failing createTodo leaves the table as it was.
C2_CreateRejects ==
    [][Calls("createTodo") =>
         /\ result'.error \in InvalidInput
              <=> \/ TitleRejected(call'.args.title)
                  \/ DescriptionRejected(call'.args)
         /\ result'.error # NoError => todos' = todos]_vars

\* a 201-character title has been rejected with a document in the table
C2_Witness ==
    /\ call.op = "createTodo"
    /\ result.error \in InvalidInput
    /\ call.args.title = Str("a", MaxTitleLen + 1)
    /\ todos # <<>>

(***************************************************************************)
(* C3.  Whatever calls were made, every document of the table has a title *)
(* without surrounding whitespace of 1..200 characters, and a description *)
(* that is absent or has at most 1000 characters.                         *)
(***************************************************************************)
C3_PersistedFieldsValid ==
    \A id \in DOMAIN todos :
        LET doc == todos[id]
        IN  /\ Trim(doc.title) = doc.title
            /\ Length(doc.title) \in 1..MaxTitleLen
            /\ \/ "description" \notin DOMAIN doc
               \/ Length(doc.description) <= MaxDescriptionLen

\* an over-long title has been refused by updateTodo on a full table
C3_Witness ==
    /\ call.op = "updateTodo"
    /\ result.error = "Title must be less than 200 characters"
    /\ Cardinality(DOMAIN todos) = MaxTodos
    /\ \E id \in DOMAIN todos : "description" \in DOMAIN todos[id]

(***************************************************************************)
(* C4.  listTodos returns min(limit, number of matching documents)        *)
(* documents, the limit being 100 when none is given and every document   *)
(* matching when no completed filter is given; they are the most recently *)
(* created matching documents, in strictly descending order of creation.  *)
(***************************************************************************)
Created(doc) == doc._creationTime.val

C4_ListNewestFirst ==
    call.op = "listTodos" =>
        LET args == call.args
            limit == IF "limit" \in DOMAIN args
                       THEN args.limit.val ELSE DefaultLimit
            matching == {id \in DOMAIN todos :
                            \/ "completed" \notin DOMAIN args
                            \/ todos[id].completed = args.completed}
            out == result.value
            returned == {out[k]._id : k \in 1..Len(out)}
        IN  /\ result.error = NoError
            /\ Len(out) = IF limit < Cardinality(matching)
                            THEN limit ELSE Cardinality(matching)
            /\ returned \subseteq matching
            /\ \A k \in 1..Len(out) : out[k] = todos[out[k]._id]
            /\ \A k \in 1..(Len(out) - 1) : Created(out[k]) > Created(out[k + 1])
            /\ \A id \in matching \ returned, k \in 1..Len(out) :
                   Created(todos[id]) < Created(out[k])

\* listTodos({}) has cut a table of more than 100 documents down to 100
C4_Witness ==
    /\ call.op = "listTodos"
    /\ DOMAIN call.args = {}
    /\ Cardinality(DOMAIN todos) > DefaultLimit
    /\ Len(result.value) = DefaultLimit

(***************************************************************************)
(* C5.  As claimed: listTodos({completed: true}) returns only completed   *)
(* documents, and each of them is also returned by listTodos({}) on the   *)
(* same table, however many documents the table holds.                    *)
(***************************************************************************)
OnlyCompleted(out) == \A k \in 1..Len(out) : out[k].completed = Bool(TRUE)

\* the arguments without the completed filter
Unfiltered(args) == [k \in DOMAIN args \ {"completed"} |-> args[k]]

SubsetOfUnfiltered(out, args) ==
    LET all == listTodos(todos, Unfiltered(args))
    IN  \A k \in 1..Len(out) : \E j \in 1..Len(all) : all[j] = out[k]

\* the call listTodos({completed: true}), with the default limit
FiltersCompleted(args) == args = [completed |-> Bool(TRUE)]

C5_AsClaimed ==
    (call.op = "listTodos" /\ FiltersCompleted(call.args)) =>
        /\ OnlyCompleted(result.value)
        /\ SubsetOfUnfiltered(result.value, call.args)

\* C5, amended: listTodos({completed: true}) returns only completed
\* documents; each of them is also returned by listTodos({}) on the same
\* table when the table holds no more documents than the default limit, 100.
C5_CompletedSubset ==
    (call.op = "listTodos" /\ FiltersCompleted(call.args)) =>
        /\ OnlyCompleted(result.value)
        /\ Cardinality(DOMAIN todos) <= DefaultLimit
             => SubsetOfUnfiltered(result.value, call.args)

\* listTodos({completed: true}) has returned some but not all of the
\* documents of a table of exactly 100
C5_Witness ==
    /\ call.op = "listTodos"
    /\ call.args = [completed |-> Bool(TRUE)]
    /\ Cardinality(DOMAIN todos) = DefaultLimit
    /\ Len(result.value) \in 1..(DefaultLimit - 1)

(***************************************************************************)
(* C6.  A successful updateTodo sets the title, the description and the   *)
(* completed flag it is given (title and description trimmed) on the      *)
(* target document, leaves every field whose key is not in its input, the *)
(* _id and the _creationTime as they were, leaves every other document as *)
(* it was, and returns the document as stored.  (A description key        *)
(* carrying undefined is the case of C9.)                                 *)
(***************************************************************************)
C6_UpdateChangesOnlySupplied ==
    [][(Calls("updateTodo") /\ result'.error = NoError) =>
         LET args == call'.args
             id == args.todoId
         IN  /\ id \in DOMAIN todos
             /\ DOMAIN todos' = DOMAIN todos
             /\ \A other \in DOMAIN todos \ {id} : todos'[other] = todos[other]
             /\ todos'[id]._id = todos[id]._id
             /\ todos'[id]._creationTime = todos[id]._creationTime
             /\ todos'[id].title =
                  IF "title" \in DOMAIN args
                    THEN Trim(args.title) ELSE todos[id].title
             /\ "description" \notin DOMAIN args
                  => Prop(todos'[id], "description")
                       = Prop(todos[id], "description")
             /\ ("description" \in DOMAIN args /\ args.description # Undefined)
                  => Prop(todos'[id], "description") = Trim(args.description)
             /\ todos'[id].completed =
                  IF "completed" \in DOMAIN args
                    THEN args.completed ELSE todos[id].completed
             /\ result'.value = todos'[id]]_vars

\* an update of the description alone has succeeded on one of two documents
C6_Witness ==
    /\ call.op = "updateTodo"
    /\ result.error = NoError
    /\ DOMAIN call.args = {"todoId", "description"}
    /\ call.args.description # Undefined
    /\ Cardinality(DOMAIN todos) >= 2
    /\ todos[call.args.todoId].completed = Bool(TRUE)

(***************************************************************************)
(* C7.  updateTodo on an existing document, given a title that is empty   *)
(* after trimming or longer than 200 characters, or a description longer  *)
(* than 1000 characters, fails with InvalidInput and leaves the table as  *)
(* it was, whatever valid fields the same call carries.                   *)
(***************************************************************************)
UpdateRejected(args) ==
    \/ "title" \in DOMAIN args /\ TitleRejected(args.title)
    \/ DescriptionRejected(args)

C7_UpdateRejectsBeforeMutation ==
    [][(/\ Calls("updateTodo")
        /\ call'.args.todoId \in DOMAIN todos
        /\ UpdateRejected(call'.args))
       => (result'.error \in InvalidInput /\ todos' = todos)]_vars

\* a valid title and a completed flag came with an over-long description
C7_Witness ==
    /\ call.op = "updateTodo"
    /\ result.error = "Description must be less than 1000 characters"
    /\ call.args.todoId \in DOMAIN todos
    /\ "title" \in DOMAIN call.args
    /\ ~TitleRejected(call.args.title)
    /\ "completed" \in DOMAIN call.args

(***************************************************************************)
(* C8.  updateTodo on an id without a document, never created or deleted, *)
(* fails with NotFound whatever other fields it is given, and leaves the  *)
(* table as it was.                                                       *)
(***************************************************************************)
C8_UpdateNotFound ==
    [][(Calls("updateTodo") /\ call'.args.todoId \notin DOMAIN todos)
       => (result'.error \in NotFound /\ todos' = todos)]_vars

\* an update with an unacceptable title of a deleted document, with another
\* document in the table
C8_Witness ==
    /\ call.op = "updateTodo"
    /\ result.error \in NotFound
    /\ call.args.todoId \in deleted
    /\ "title" \in DOMAIN call.args
    /\ TitleRejected(call.args.title)
    /\ todos # <<>>

(***************************************************************************)
(* C9.  As claimed: in updateTodo the presence of the description key is  *)
(* what applies a change: a successful update that carries the key sets   *)
(* the stored description to the value given, trimmed, and clears it when *)
(* the value is undefined; one that omits the key leaves it as it was.    *)
(***************************************************************************)
C9_KeyPresenceApplies ==
    [][(Calls("updateTodo") /\ result'.error = NoError) =>
         LET args == call'.args
             id == args.todoId
         IN  Prop(todos'[id], "description") =
               IF "description" \in DOMAIN args
                 THEN OptTrim(args.description)
               ELSE Prop(todos[id], "description")]_vars

(***************************************************************************)
(* C10.  A document deleteTodo has succeeded on is gone for good: it is   *)
(* in the table in no later state, getTodo returns null for its id,       *)
(* listTodos does not return it, and a further deleteTodo of the id fails *)
(* with NotFound; a successful deleteTodo removes the target only.        *)
(***************************************************************************)
C10_DeletedIsGone ==
    [][/\ \A id \in deleted' :
            /\ id \notin DOMAIN todos'
            /\ (call'.op = "getTodo" /\ call'.args.todoId = id)
                 => result'.value = Null
            /\ call'.op = "listTodos"
                 => \A k \in 1..Len(result'.value) : result'.value[k]._id # id
       /\ (Calls("deleteTodo") /\ call'.args.todoId \in deleted)
            => (result'.error \in NotFound /\ todos' = todos)
       /\ (Calls("deleteTodo") /\ result'.error = NoError)
            => /\ call'.args.todoId \in DOMAIN todos
               /\ todos' = [id \in DOMAIN todos \ {call'.args.todoId} |-> todos[id]]
      ]_vars

\* a second deleteTodo of the same id has failed, with a document left
C10_Witness ==
    /\ call.op = "deleteTodo"
    /\ result.error \in NotFound
    /\ call.args.todoId \in deleted
    /\ todos # <<>>

(***************************************************************************)
(* C11.  getTodo never throws: it returns the document of an id that has  *)
(* one and null for an id that has none, never created or deleted, and    *)
(* changes no state.                                                      *)
(***************************************************************************)
C11_GetNeverFails ==
    [][Calls("getTodo") =>
         LET id == call'.args.todoId
         IN  /\ result'.error = NoError
             /\ result'.value = IF id \in DOMAIN todos THEN todos[id] ELSE Null
             /\ UNCHANGED <<todos, used, clock, deleted>>]_vars

\* getTodo has returned null for an id never handed out, with a document
\* in the table
C11_Witness ==
    /\ call.op = "getTodo"
    /\ result.value = Null
    /\ call.args.todoId \notin used
    /\ todos # <<>>

(***************************************************************************)
(* C12.  toggleTodoCompleted on an existing document negates its          *)
(* completed flag, changes nothing else and returns the document as       *)
(* stored; called again on the table it leaves, it restores the table and *)
(* returns the document with its first completed value.                   *)
(***************************************************************************)
C12_ToggleNegates ==
    [][(Calls("toggleTodoCompleted") /\ call'.args.todoId \in DOMAIN todos) =>
         LET id == call'.args.todoId
             again == toggleTodoCompleted(todos', call'.args)
         IN  /\ result'.error = NoError
             /\ todos' = [todos EXCEPT
                            ![id].completed = Bool(~todos[id].completed.val)]
             /\ result'.value = todos'[id]
             /\ again.error = NoError
             /\ again.table = todos
             /\ again.value = todos[id]]_vars

\* a completed document, one of two, has been toggled
C12_Witness ==
    /\ call.op = "toggleTodoCompleted"
    /\ result.error = NoError
    /\ result.value.completed = Bool(FALSE)
    /\ Cardinality(DOMAIN todos) >= 2

(***************************************************************************)
(* C14.  A successful createTodo returns the document as stored, with the *)
(* completed flag it was given, and listTodos with no filter and any      *)
(* limit, on the table it leaves, returns that document first.            *)
(***************************************************************************)
C14_CreatedIsFirst ==
    [][(Calls("createTodo") /\ result'.error = NoError) =>
         LET created == result'.value
         IN  /\ created._id \in DOMAIN todos' \ DOMAIN todos
             /\ created = todos'[created._id]
             /\ created.completed = call'.args.completed
             /\ \A args \in ListArgs :
                    "completed" \notin DOMAIN args
                      => listTodos(todos', args)[1] = created]_vars

\* a completed todo has been created after another, which is still there
C14_Witness ==
    /\ call.op = "createTodo"
    /\ result.error = NoError
    /\ call.args.completed = Bool(TRUE)
    /\ Cardinality(DOMAIN todos) >= 2

(***************************************************************************)
(* C16.  updateTodo and toggleTodoCompleted change no document's _id or   *)
(* _creationTime, remove and add no document, and so leave the order of   *)
(* the documents in listTodos as it was; the _id of a document is the id  *)
(* it is stored under.                                                    *)
(***************************************************************************)
IdsOf(seq) == [k \in 1..Len(seq) |-> seq[k]._id]

C16_IdAndCreationTimeFixed ==
    [][(Calls("updateTodo") \/ Calls("toggleTodoCompleted")) =>
         /\ DOMAIN todos' = DOMAIN todos
         /\ \A id \in DOMAIN todos :
                /\ todos'[id]._id = id
                /\ todos[id]._id = id
                /\ todos'[id]._creationTime = todos[id]._creationTime
         /\ IdsOf(listTodos(todos', <<>>)) = IdsOf(listTodos(todos, <<>>))]_vars

\* an update of every field has succeeded on the older of two documents
C16_Witness ==
    /\ call.op = "updateTodo"
    /\ result.error = NoError
    /\ DOMAIN call.args = {"todoId", "title", "description", "completed"}
    /\ \E id \in DOMAIN todos :
           Created(todos[id]) > Created(todos[call.args.todoId])

(***************************************************************************)
(* C15.  createTodo stores the trimmed description it is given and none   *)
(* when it is given none: a document created without a description has    *)
(* no description, one created with an empty or blank description has the *)
(* empty string; a description longer than 1000 characters makes          *)
(* createTodo fail with InvalidInput.                                     *)
(***************************************************************************)
EmptyString == String(<<>>)

C15_DescriptionStored ==
    call.op = "createTodo" =>
        LET given == Prop(call.args, "description")
            stored == Prop(todos[result.value._id], "description")
        IN  /\ (result.error = NoError /\ given = Undefined)
                 => (stored = Undefined /\ "description" \notin DOMAIN result.value)
            /\ (result.error = NoError /\ given # Undefined)
                 => (stored = Trim(given) /\ result.value.description = stored)
            /\ (result.error = NoError /\ given # Undefined
                  /\ Length(Trim(given)) = 0)
                 => (stored = EmptyString /\ stored # Undefined)
            /\ (given # Undefined /\ Length(given) > MaxDescriptionLen)
                 => result.error \in InvalidInput

\* a todo with a blank description has been created next to one without
C15_Witness ==
    /\ call.op = "createTodo"
    /\ result.error = NoError
    /\ Prop(call.args, "description") = Padded("d", 0)
    /\ todos[result.value._id].description = EmptyString
    /\ \E id \in DOMAIN todos : "description" \notin DOMAIN todos[id]

(***************************************************************************)
(* C13.  While the only mutations in flight or done on a document are     *)
(* toggleTodoCompleted calls, its stored completed flag is the flag it    *)
(* had at first negated once for every call that is done, every such call *)
(* succeeded, and each returned the document as it wrote it, with the     *)
(* negation of the flag it found.                                         *)
(***************************************************************************)
Targets(tx, id) == tx.status # "idle" /\ tx.call.args.todoId = id

IsDone(tx, op) == tx.status = "done" /\ tx.call.op = op

NegatedTimes(flag, k) == IF k % 2 = 0 THEN flag ELSE Bool(~flag.val)

C13_ToggleAtomic ==
    \A id \in DOMAIN origin :
        (\A p \in Procs :
            Targets(txs[p], id) => txs[p].call.op = "toggleTodoCompleted")
        => LET done == {p \in Procs : Targets(txs[p], id)
                                        /\ txs[p].status = "done"}
           IN  /\ id \in DOMAIN todos
               /\ todos[id].completed =
                      NegatedTimes(origin[id].completed, Cardinality(done))
               /\ \A p \in done :
                      /\ txs[p].error = NoError
                      /\ txs[p].value = txs[p].wrote
                      /\ txs[p].value.completed =
                             Bool(~txs[p].before.completed.val)

\* every client has toggled the same document, and one of them had to run
\* its handler again because another had committed in between
C13_Witness ==
    \E id \in DOMAIN origin :
        /\ \A p \in Procs : Targets(txs[p], id)
                              /\ IsDone(txs[p], "toggleTodoCompleted")
        /\ \E p \in Procs : txs[p].retried

(***************************************************************************)
(* C17.  Two mutations that are done, on different documents that no      *)
(* other mutation targets, leave the two documents as the two handlers    *)
(* run one after the other on the first table leave them, in either       *)
(* order, and each returned what its handler returns in either order.     *)
(***************************************************************************)
Answer(out) == [error |-> out.error, value |-> out.value]

C17_DifferentRecordsIndependent ==
    \A p, q \in Procs :
        LET idp == txs[p].call.args.todoId
            idq == txs[q].call.args.todoId
        IN  (/\ p # q
             /\ txs[p].status = "done"
             /\ txs[q].status = "done"
             /\ idp # idq
             /\ \A r \in Procs \ {p, q} :
                    ~Targets(txs[r], idp) /\ ~Targets(txs[r], idq))
            => LET first == Run(txs[p].call, origin)
                   second == Run(txs[q].call, first.table)
                   other == Run(txs[q].call, origin)
                   last == Run(txs[p].call, other.table)
               IN  /\ \A id \in {idp, idq} :
                          /\ DbGet(todos, id) = DbGet(second.table, id)
                          /\ DbGet(todos, id) = DbGet(last.table, id)
                   /\ Answer(txs[p]) = Answer(first)
                   /\ Answer(txs[p]) = Answer(last)
                   /\ Answer(txs[q]) = Answer(second)
                   /\ Answer(txs[q]) = Answer(other)

\* an update and a delete of different documents have both succeeded, and
\* one of them committed on a table the other had changed since its snapshot
C17_Witness ==
    \E p, q \in Procs :
        /\ IsDone(txs[p], "updateTodo") /\ txs[p].error = NoError
        /\ IsDone(txs[q], "deleteTodo") /\ txs[q].error = NoError
        /\ txs[p].call.args.todoId # txs[q].call.args.todoId
        /\ txs[p].overlapped \/ txs[q].overlapped

(***************************************************************************)
(* C18.  A toggleTodoCompleted that is done has succeeded on a document   *)
(* that was there, and returned it as written with the flag negated, or   *)
(* has failed with "Todo not found" on a document that was not there; it  *)
(* never fails with "Failed to update todo".  A document that a           *)
(* deleteTodo has succeeded on is not in the table.                       *)
(***************************************************************************)
C18_ToggleFailsOnlyNotFound ==
    /\ \A p \in Procs :
          IsDone(txs[p], "toggleTodoCompleted") =>
              /\ txs[p].error \notin PersistenceError
              /\ txs[p].error \in {NoError} \cup NotFound
              /\ txs[p].error = NoError <=> txs[p].before # Null
              /\ txs[p].error = NoError =>
                     /\ txs[p].value = txs[p].wrote
                     /\ txs[p].value =
                            [txs[p].before EXCEPT
                               !.completed = Bool(~txs[p].before.completed.val)]
              /\ txs[p].error \in NotFound => txs[p].wrote = Null
    /\ \A p \in Procs :
          (IsDone(txs[p], "deleteTodo") /\ txs[p].error = NoError) =>
              txs[p].call.args.todoId \notin DOMAIN todos
    /\ deleted \cap DOMAIN todos = {}

\* a toggle that began while the document was there has failed with "Todo
\* not found" after a delete of the document, and another toggle of that
\* document had succeeded before the delete
C18_Witness ==
    \E p, q \in Procs :
        /\ IsDone(txs[p], "toggleTodoCompleted")
        /\ txs[p].error \in NotFound
        /\ txs[p].retried
        /\ IsDone(txs[q], "deleteTodo")
        /\ txs[q].error = NoError
        /\ txs[q].call.args.todoId = txs[p].call.args.todoId

(***************************************************************************)
(* C19.  As claimed: when a mutation the page has called has succeeded,   *)
(* the page has invalidated the listTodos query.  The submit handler does *)
(* so; the switch and the X button call their mutation and nothing else.  *)
(***************************************************************************)
C19_MutationsInvalidate ==
    (page.event \in {"submit", "toggle", "delete"}
        /\ call # NoCall /\ result.error = NoError)
    => page.invalidated

(***************************************************************************)
(* C20.  A form value that todoSchema accepts is sent to createTodo with  *)
(* the trimmed title, the description and the completed flag, and         *)
(* createTodo does not reject what is sent.                               *)
(***************************************************************************)
C20_SchemaAcceptedIsAccepted ==
    (page.event = "submit" /\ todoSchema(page.value).error = NoError)
    => /\ page.accepted
       /\ call.op = "createTodo"
       /\ call.args.title = Trim(page.value.title)
       /\ Prop(call.args, "description") = page.value.description
       /\ call.args.completed = page.value.completed
       /\ createTodoError(call.args) = NoError
       /\ result.error \notin InvalidInput

\* a title of more than MaxTitleLen characters as typed, and of MaxTitleLen
\* characters when trimmed, has been submitted and stored
C20_Witness ==
    /\ page.event = "submit"
    /\ page.accepted
    /\ Length(page.value.title) > MaxTitleLen
    /\ result.error = NoError
    /\ Length(result.value.title) = MaxTitleLen

====
